---- MODULE Spec2Model ----
(***************************************************************************)
(* Model of CopyTextStyle.py (Text+ Style Copier): one run of main() over  *)
(* a host whose answers are drawn from bounded sets, plus the two pure     *)
(* helpers get_tool_settings and the settings patch checked on their own   *)
(* input universes.                                                        *)
(***************************************************************************)
EXTENDS Integers, Sequences, FiniteSets

\* ------------------------------------------------------------------ bounds
NItems == 3          \* timeline items the host can hand out
MaxTracks == 2       \* video tracks GetTrackCount can report
MaxTrackLen == 2     \* items GetItemListInTrack can return for one track
MaxCompTools == 2    \* tools in one Fusion composition
MaxToolEntries == 2  \* entries of a snapshot's "Tools" mapping

\* `len(result.keys()) > 5`
KeyThreshold == 5

\* ------------------------------------------------------------ python values
\* A value read from / written to the "StyledText" input: None or a string.
PyNone == [isNone |-> TRUE, s |-> ""]
PyStr(x) == [isNone |-> FALSE, s |-> x]
Texts == {PyNone, PyStr(""), PyStr("Hello")}

\* Node names are character sequences, so that `"Text" in name` is a real
\* substring test.
NameTemplate == <<"T", "e", "m", "p", "l", "a", "t", "e">>
NameText1 == <<"T", "e", "x", "t", "1">>
NameTitle == <<"T", "i", "t", "l", "e">>
NodeNames == {NameTemplate, NameText1, NameTitle}
MarkerTemplate == <<"T", "e", "m", "p", "l", "a", "t", "e">>
MarkerText == <<"T", "e", "x", "t">>

\* python `sub in s` for strings
Contains(sub, s) ==
    \E i \in 1..(Len(s) - Len(sub) + 1) : SubSeq(s, i, i + Len(sub) - 1) = sub

\* ------------------------------------------------------------- compositions
\* A composition is the ordered list of its tools; a tool has a name and a
\* registered type id.  NoComp is a falsy GetFusionCompByIndex result.
NoComp == <<[name |-> <<>>, id |-> "NoComp"]>>
NoTool == <<>>
ToolKinds == [name : NodeNames, id : {"TextPlus", "Other"}]
RECURSIVE SeqsUpTo(_, _)
SeqsUpTo(S, n) ==
    IF n = 0 THEN {<<>>}
    ELSE LET shorter == SeqsUpTo(S, n - 1)
         IN shorter \cup {Append(q, x) : q \in {r \in shorter : Len(r) = n - 1}, x \in S}
Comps == SeqsUpTo(ToolKinds, MaxCompTools)

IsTextPlus(tool) == tool.id = "TextPlus"
NameHasMarker(tool) == Contains(MarkerTemplate, tool.name) \/ Contains(MarkerText, tool.name)

\* find_textplus_tool: the name of the tool found, or NoTool
find_textplus_tool(fusion_comp) ==
    IF fusion_comp = NoComp THEN NoTool
    ELSE LET tools_dict == SelectSeq(fusion_comp, IsTextPlus)
             named == SelectSeq(fusion_comp, NameHasMarker)
         IN IF tools_dict # <<>> THEN tools_dict[1].name
            ELSE IF named # <<>> THEN named[1].name
            ELSE NoTool

\* ------------------------------------------------------- settings snapshots
\* A value an accessor can return: None, some non-mapping value, or a dict.
\* A dict is described by whether it has the keys "Inputs" and "Tools", the
\* ordered "Tools" mapping (a sequence of key/value entries with distinct
\* keys, in insertion order) and the number of its other top-level keys.
NoneValue == [kind |-> "none", hasInputs |-> FALSE, hasTools |-> FALSE, tools |-> <<>>, extra |-> 0]
ScalarValue == [kind |-> "scalar", hasInputs |-> FALSE, hasTools |-> FALSE, tools |-> <<>>, extra |-> 0]
Dict(inputs, hasTools, tools, extra) ==
    [kind |-> "dict", hasInputs |-> inputs, hasTools |-> hasTools, tools |-> tools, extra |-> extra]

\* Values of a "Tools" entry: a per-node mapping with "Inputs" (two different
\* ones), a mapping without "Inputs", a non-mapping.
NodeVal(sz) == [isDict |-> TRUE, hasInputs |-> TRUE, size |-> sz]
PlainVal == [isDict |-> TRUE, hasInputs |-> FALSE, size |-> 0]
ScalarVal == [isDict |-> FALSE, hasInputs |-> FALSE, size |-> 0]
ToolValues == {NodeVal(1), NodeVal(2), PlainVal, ScalarVal}

Keys(d) == {d[j].key : j \in 1..Len(d)}
RECURSIVE DictsUpTo(_)
DictsUpTo(n) ==
    IF n = 0 THEN {<<>>}
    ELSE LET shorter == DictsUpTo(n - 1)
         IN shorter \cup
            {Append(d, [key |-> k, val |-> v]) :
                d \in {r \in shorter : Len(r) = n - 1}, k \in NodeNames, v \in ToolValues}
ToolsMaps == {d \in DictsUpTo(MaxToolEntries) : Cardinality(Keys(d)) = Len(d)}

\* len(result)
DictLen(r) == (IF r.hasInputs THEN 1 ELSE 0) + (IF r.hasTools THEN 1 ELSE 0) + r.extra

\* Falsy with the early return lost
FalsyNever(r) == FALSE

\* python truthiness of a settings value (`if not source_settings`)
Falsy(r) == r.kind = "none" \/ (r.kind = "dict" /\ DictLen(r) = 0)

\* ------------------------------------------------------ get_tool_settings
Candidates == <<"GetSettings", "SaveSettings", "GetCurrentSettings">>

\* Accepts with the key count compared by >=
AcceptsLoose(result) ==
    /\ result.kind = "dict"
    /\ DictLen(result) > 0
    /\ (result.hasInputs \/ result.hasTools \/ DictLen(result) >= KeyThreshold)

\* the acceptance test of one accessor result
Accepts(result) ==
    /\ result.kind = "dict"
    /\ DictLen(result) > 0
    /\ (result.hasInputs \/ result.hasTools \/ DictLen(result) > KeyThreshold)

\* A tool's accessors: for each candidate name, whether the attribute is
\* missing, raises when called, or returns a value.
Missing == [kind |-> "missing", result |-> NoneValue]
Raises == [kind |-> "raises", result |-> NoneValue]
Returns(r) == [kind |-> "returns", result |-> r]

RECURSIVE Probe(_, _)
Probe(tool, k) ==
    IF k > Len(Candidates) THEN [settings |-> NoneValue, method |-> "None"]
    ELSE LET name == Candidates[k]
             o == tool[name]
         IN IF o.kind = "returns" /\ Accepts(o.result)
            THEN [settings |-> o.result, method |-> name]
            ELSE Probe(tool, k + 1)

get_tool_settings(tool) == Probe(tool, 1)

\* --------------------------------------------- apply_style_and_restore_text
IsNodeShaped(val) == val.isDict /\ val.hasInputs

\* d[k] = v on an insertion-ordered dict
DictSet(d, k, v) ==
    IF k \in Keys(d)
    THEN LET j == CHOOSE n \in 1..Len(d) : d[n].key = k
         IN SubSeq(d, 1, j - 1) \o <<[key |-> k, val |-> v]>> \o SubSeq(d, j + 1, Len(d))
    ELSE Append(d, [key |-> k, val |-> v])

\* del d[k]
DictDel(d, k) ==
    LET Keep(e) == e.key # k
    IN SelectSeq(d, Keep)

FirstNodeShaped(tools) ==
    LET js == {j \in 1..Len(tools) : IsNodeShaped(tools[j].val)}
    IN IF js = {} THEN 0 ELSE CHOOSE j \in js : \A i \in js : j <= i

\* PatchTools without the del
PatchToolsKeepOld(tools, tgt_name) ==
    LET j == FirstNodeShaped(tools)
    IN IF j = 0 \/ tools[j].key = tgt_name THEN tools
       ELSE DictSet(tools, tgt_name, tools[j].val)

\* the loop over new_settings['Tools'].items()
PatchTools(tools, tgt_name) ==
    LET j == FirstNodeShaped(tools)
    IN IF j = 0 \/ tools[j].key = tgt_name THEN tools
       ELSE DictDel(DictSet(tools, tgt_name, tools[j].val), tools[j].key)

\* copy.deepcopy + pre-patch: the new_settings handed to the setter
PatchSettings(source_settings, tgt_name) ==
    IF source_settings.hasTools
    THEN [source_settings EXCEPT !.tools = PatchTools(source_settings.tools, tgt_name)]
    ELSE source_settings

\* BackupText with the guard taken on every read
BackupTextBlank(read) == PyStr("")

\* the text kept for the restore
BackupText(read) == IF read = PyNone THEN PyStr("") ELSE read

\* ChooseSetter without the SaveSettings branch
ChooseSetterSetFirst(source_method, hasSet, hasLoad) ==
    IF hasSet THEN "SetSettings"
    ELSE IF hasLoad THEN "LoadSettings"
    ELSE "none"

\* which setter the if/elif chain calls
ChooseSetter(source_method, hasSet, hasLoad) ==
    IF source_method = "SaveSettings" /\ hasLoad THEN "LoadSettings"
    ELSE IF hasSet THEN "SetSettings"
    ELSE IF hasLoad THEN "LoadSettings"
    ELSE "none"

\* ------------------------------------------------------------ host answers
Items == 1..NItems
NoItem == 0
TargetColor == "Pink"
Colors == {"Pink", "Orange"}

\* The item lists GetItemListInTrack can return once n items have been
\* listed.  An item sits on one track at one place, so items are numbered in
\* timeline order (track order, then in-track order); each carries its clip
\* color.  The source item is any of them, listed or not.
TrackLists(n) ==
    {q \in SeqsUpTo([id : Items, color : Colors], MaxTrackLen) :
        \A j \in 1..Len(q) : q[j].id = n + j}

\* Accessor results the source tool can give during a run.
FlatSettings == Dict(TRUE, FALSE, <<>>, 0)
NestedSettings ==
    Dict(FALSE, TRUE,
         <<[key |-> NameTitle, val |-> PlainVal], [key |-> NameTemplate, val |-> NodeVal(2)]>>, 0)
RunResults == {NoneValue, Dict(FALSE, FALSE, <<>>, KeyThreshold), FlatSettings, NestedSettings}
RunOutcomes == {Missing, Raises} \cup {Returns(r) : r \in RunResults}
CandidateSet == {Candidates[k] : k \in 1..Len(Candidates)}

\* ------------------------------------------------------------------- state
VARIABLES
    pc,              \* position of main()
    log,             \* Logger.lines
    reports,         \* the texts show_report_window was called with
    pages,           \* the pages OpenPage was called with
    source_item,
    source_tool,
    source_settings,
    method_used,
    track_count,
    i,               \* track index of the scan
    items,           \* rest of the item list being scanned
    target_items,
    scanned,         \* every item the scan was handed, in order
    success_count,
    idx,             \* position of the apply loop in target_items
    tgt_tool,
    frame,           \* locals of apply_style_and_restore_text and what it did
    calls,           \* host calls counted: setters, SetInput, comp/track access
    restored,        \* destinations whose setter and SetInput both returned
    fn, arg, ret     \* a helper called on its own: phase, input, output

vars == <<pc, log, reports, pages, source_item, source_tool, source_settings,
          method_used, track_count, i, items, target_items, scanned,
          success_count, idx, tgt_tool, frame, calls, restored, fn, arg, ret>>

runVars == <<pc, log, reports, pages, source_item, source_tool, source_settings,
             method_used, track_count, i, items, target_items, scanned,
             success_count, idx, tgt_tool, frame, calls, restored>>

\* One log line: its kind, the item it names, a count and an accessor name.
Line(tag, item, n, via) == [tag |-> tag, item |-> item, n |-> n, via |-> via]

NoFrame ==
    [tgt_name |-> NoTool, original_text |-> PyNone, new_settings |-> NoneValue,
     read |-> PyNone, left |-> PyNone, text |-> PyNone,
     hasSet |-> FALSE, hasLoad |-> FALSE,
     trace |-> <<>>, result |-> "none"]

NoCalls == [setter |-> 0, setInput |-> 0, comp |-> 0, track |-> 0]
NoArg == <<>>

RunInit ==
    /\ pc = "start"
    /\ log = <<>>
    /\ reports = <<>>
    /\ pages = <<>>
    /\ source_item = NoItem
    /\ source_tool = NoTool
    /\ source_settings = NoneValue
    /\ method_used = "None"
    /\ track_count = 0
    /\ i = 0
    /\ items = <<>>
    /\ target_items = <<>>
    /\ scanned = <<>>
    /\ success_count = 0
    /\ idx = 0
    /\ tgt_tool = NoTool
    /\ frame = NoFrame
    /\ calls = NoCalls
    /\ restored = 0

Init == RunInit /\ fn = "idle" /\ arg = NoArg /\ ret = NoArg

\* show_report_window(fusion, logger.get_full_report()): the call and its text
show_report_window(text) == reports' = Append(reports, text)

\* ------------------------------------------------------------------ main()
\* get_resolve, Fusion, project and timeline lookup
Connect ==
    /\ pc = "start"
    /\ \E resolve \in BOOLEAN, project \in BOOLEAN, timeline \in BOOLEAN :
          IF ~resolve THEN
              /\ pc' = "done"
              /\ log' = log
          ELSE IF ~project THEN
              \* None.GetCurrentTimeline(): AttributeError leaves main
              /\ pc' = "crashed"
              /\ log' = log
          ELSE IF ~timeline THEN
              /\ pc' = "done"
              /\ log' = Append(log, Line("ErrorNoTimeline", NoItem, 0, ""))
          ELSE
              /\ pc' = "have_timeline"
              /\ log' = log
    /\ UNCHANGED <<reports, pages, source_item, source_tool, source_settings,
                   method_used, track_count, i, items, target_items, scanned,
                   success_count, idx, tgt_tool, frame, calls, restored, fn, arg, ret>>

\* GetCurrentVideoItem and the "Source:" line
GetSource ==
    /\ pc = "have_timeline"
    /\ \E item \in Items \cup {NoItem} :
          /\ source_item' = item
          /\ IF item = NoItem THEN
                /\ pc' = "done"
                /\ log' = Append(log, Line("ErrorNoClip", NoItem, 0, ""))
             ELSE
                /\ pc' = "have_source"
                /\ log' = Append(log, Line("Source", item, 0, ""))
    /\ UNCHANGED <<reports, pages, source_tool, source_settings,
                   method_used, track_count, i, items, target_items, scanned,
                   success_count, idx, tgt_tool, frame, calls, restored, fn, arg, ret>>

\* the composition auto-load and find_textplus_tool on the source
LocateSource ==
    /\ pc = "have_source"
    /\ \E first \in Comps \cup {NoComp}, second \in Comps \cup {NoComp} :
          LET source_comp == IF first = NoComp THEN second ELSE first
              tool == find_textplus_tool(source_comp)
          IN /\ pages' = IF first = NoComp THEN pages \o <<"Fusion", "Edit">> ELSE pages
             /\ IF source_comp = NoComp THEN
                   /\ pc' = "done"
                   /\ log' = Append(log, Line("ErrorNoComp", NoItem, 0, ""))
                   /\ source_tool' = NoTool
                ELSE IF tool = NoTool THEN
                   /\ pc' = "done"
                   /\ log' = Append(log, Line("ErrorNoTool", NoItem, 0, ""))
                   /\ source_tool' = NoTool
                ELSE
                   /\ pc' = "have_tool"
                   /\ log' = log
                   /\ source_tool' = tool
    /\ UNCHANGED <<reports, source_item, source_settings,
                   method_used, track_count, i, items, target_items, scanned,
                   success_count, idx, tgt_tool, frame, calls, restored, fn, arg, ret>>

\* get_tool_settings on the source tool, and main's check of what it returned
GetSettings ==
    /\ pc = "have_tool"
    /\ \E tool \in [CandidateSet -> RunOutcomes] :
          LET got == get_tool_settings(tool)
          IN /\ source_settings' = got.settings
             /\ method_used' = got.method
             /\ IF Falsy(got.settings) THEN
                   /\ pc' = "done"
                   /\ log' = Append(log, Line("FatalNoSettings", NoItem, 0, ""))
                   /\ show_report_window(log')
                ELSE
                   /\ pc' = "scan_start"
                   /\ log' = Append(log, Line("Success", NoItem, 0, got.method))
                   /\ reports' = reports
    \* source_comp and source_tool are not read again
    /\ source_tool' = NoTool
    /\ UNCHANGED <<pages, source_item, track_count, i, items, target_items, scanned,
                   success_count, idx, tgt_tool, frame, calls, restored, fn, arg, ret>>

\* target_items = [] and GetTrackCount("video")
ScanStart ==
    /\ pc = "scan_start"
    /\ \E n \in 0..MaxTracks : track_count' = n
    /\ target_items' = <<>>
    /\ i' = 1
    /\ calls' = [calls EXCEPT !.track = @ + 1]
    /\ pc' = "scan_track"
    /\ UNCHANGED <<log, reports, pages, source_item, source_tool, source_settings,
                   method_used, items, scanned, success_count, idx, tgt_tool, frame,
                   restored, fn, arg, ret>>

\* GetItemListInTrack("video", i); a falsy answer (None, empty) skips the track
ScanTrack ==
    /\ pc = "scan_track"
    /\ i <= track_count
    /\ \E list \in TrackLists(Len(scanned)) :
          /\ items' = list
          /\ scanned' = scanned \o list
          /\ IF list = <<>> THEN i' = i + 1 /\ pc' = "scan_track"
             ELSE i' = i /\ pc' = "scan_item"
    /\ calls' = [calls EXCEPT !.track = @ + 1]
    /\ UNCHANGED <<log, reports, pages, source_item, source_tool, source_settings,
                   method_used, track_count, target_items, success_count, idx,
                   tgt_tool, frame, restored, fn, arg, ret>>

\* IsTarget without the source test
IsTargetAnyItem(item, source) == item.color = TargetColor

\* the two tests of the inner loop
IsTarget(item, source) == item.id # source /\ item.color = TargetColor

\* one item of the inner loop
ScanItem ==
    /\ pc = "scan_item"
    /\ LET item == Head(items)
       IN /\ target_items' = IF IsTarget(item, source_item)
                             THEN Append(target_items, item) ELSE target_items
          /\ items' = Tail(items)
          /\ IF Tail(items) = <<>> THEN i' = i + 1 /\ pc' = "scan_track"
             ELSE i' = i /\ pc' = "scan_item"
    /\ UNCHANGED <<log, reports, pages, source_item, source_tool, source_settings,
                   method_used, track_count, scanned, success_count, idx, tgt_tool,
                   frame, calls, restored, fn, arg, ret>>

\* range(1, track_count + 1) is exhausted
ScanEnd ==
    /\ pc = "scan_track"
    /\ i > track_count
    /\ pc' = "scanned"
    /\ UNCHANGED <<log, reports, pages, source_item, source_tool, source_settings,
                   method_used, track_count, i, items, target_items, scanned,
                   success_count, idx, tgt_tool, frame, calls, restored, fn, arg, ret>>

\* CheckTargets without the empty-list exit
CheckTargetsAlwaysApply ==
    /\ pc = "scanned"
    /\ pc' = "loop"
    /\ log' = Append(log, Line("Targets", NoItem, Len(target_items), ""))
    /\ success_count' = 0
    /\ pages' = Append(pages, "Edit")
    /\ idx' = 1
    /\ source_item' = NoItem /\ track_count' = 0 /\ i' = 0 /\ scanned' = <<>>
    /\ UNCHANGED <<reports, source_tool, source_settings, method_used, items,
                   target_items, tgt_tool, frame, calls, restored, fn, arg, ret>>

\* `if not target_items`, else the "Targets:" line, success_count = 0 and
\* OpenPage("Edit")
CheckTargets ==
    /\ pc = "scanned"
    /\ IF target_items = <<>> THEN
          /\ pc' = "done"
          /\ log' = Append(log, Line("WarningNoTargets", NoItem, 0, ""))
          /\ show_report_window(log')
          /\ UNCHANGED <<success_count, pages, idx>>
       ELSE
          /\ pc' = "loop"
          /\ log' = Append(log, Line("Targets", NoItem, Len(target_items), ""))
          /\ reports' = reports
          /\ success_count' = 0
          /\ pages' = Append(pages, "Edit")
          /\ idx' = 1
    \* the scan's locals are not read again
    /\ source_item' = NoItem /\ track_count' = 0 /\ i' = 0 /\ scanned' = <<>>
    /\ UNCHANGED <<source_tool, source_settings, method_used, items, target_items,
                   tgt_tool, frame, calls, restored, fn, arg, ret>>

\* Top of one loop iteration: GetName, GetFusionCompByIndex(1) and
\* find_textplus_tool, none of them inside the try.  `raised` names the
\* host call that raises, if any.
LoopHead ==
    /\ pc = "loop"
    /\ idx <= Len(target_items)
    /\ \E raised \in {"none", "GetName", "GetFusionCompByIndex", "GetToolList"},
          tgt_comp \in Comps \cup {NoComp} :
          LET item == target_items[idx]
              tool == find_textplus_tool(tgt_comp)
          IN /\ calls' = IF raised = "GetName" THEN calls
                         ELSE [calls EXCEPT !.comp = @ + 1]
             /\ IF raised \in {"GetName", "GetFusionCompByIndex"} THEN
                   /\ pc' = "crashed"
                   /\ UNCHANGED <<log, idx, tgt_tool>>
                ELSE IF tgt_comp = NoComp THEN
                   /\ pc' = "loop"
                   /\ log' = Append(log, Line("SkipNoComp", item.id, 0, ""))
                   /\ idx' = idx + 1
                   /\ tgt_tool' = NoTool
                ELSE IF raised = "GetToolList" THEN
                   /\ pc' = "crashed"
                   /\ UNCHANGED <<log, idx, tgt_tool>>
                ELSE IF tool = NoTool THEN
                   /\ pc' = "loop"
                   /\ log' = Append(log, Line("SkipNoTool", item.id, 0, ""))
                   /\ idx' = idx + 1
                   /\ tgt_tool' = NoTool
                ELSE
                   /\ pc' = "backup"
                   /\ tgt_tool' = tool
                   /\ UNCHANGED <<log, idx>>
    /\ UNCHANGED <<reports, pages, source_item, source_tool, source_settings,
                   method_used, track_count, i, items, target_items, scanned,
                   success_count, frame, restored, fn, arg, ret>>

\* apply_style_and_restore_text, step 1: GetAttrs("TOOLS_Name") and
\* GetInput("StyledText"); an exception of either reaches main's except.
Backup ==
    /\ pc = "backup"
    /\ \E raised \in {"none", "GetAttrs", "GetInput"}, read \in Texts :
          IF raised # "none" THEN
              /\ pc' = "loop"
              /\ log' = Append(log, Line("FailException", target_items[idx].id, 0, ""))
              /\ idx' = idx + 1
              /\ tgt_tool' = NoTool
              /\ frame' = NoFrame
          ELSE
              /\ pc' = "patch"
              /\ frame' = [NoFrame EXCEPT !.tgt_name = tgt_tool, !.read = read,
                                          !.text = read,
                                          !.original_text = BackupText(read)]
              /\ UNCHANGED <<log, idx, tgt_tool>>
    /\ UNCHANGED <<reports, pages, source_item, source_tool, source_settings,
                   method_used, track_count, i, items, target_items, scanned,
                   success_count, calls, restored, fn, arg, ret>>

\* step 2: deep copy and pre-patch
Patch ==
    /\ pc = "patch"
    /\ frame' = [frame EXCEPT !.new_settings = PatchSettings(source_settings, frame.tgt_name)]
    /\ pc' = "apply"
    /\ UNCHANGED <<log, reports, pages, source_item, source_tool, source_settings,
                   method_used, track_count, i, items, target_items, scanned,
                   success_count, idx, tgt_tool, calls, restored, fn, arg, ret>>

\* step 3: the setter.  The node has or lacks each setter, the setter called
\* raises or returns, and leaves any text in the node.
Apply ==
    /\ pc = "apply"
    /\ \E hasSet \in BOOLEAN, hasLoad \in BOOLEAN, raises \in BOOLEAN, after \in Texts :
          LET setter == ChooseSetter(method_used, hasSet, hasLoad)
          IN IF setter = "none" THEN
                 /\ frame' = [frame EXCEPT !.hasSet = hasSet, !.hasLoad = hasLoad,
                                           !.result = "False"]
                 /\ pc' = "returned"
                 /\ UNCHANGED <<log, calls>>
             ELSE IF raises THEN
                 /\ frame' = [frame EXCEPT !.hasSet = hasSet, !.hasLoad = hasLoad,
                                           !.text = after,
                                           !.trace = <<[op |-> setter, ok |-> FALSE]>>,
                                           !.result = "False"]
                 /\ log' = Append(log, Line("ErrorApply", NoItem, 0, ""))
                 /\ calls' = [calls EXCEPT !.setter = @ + 1]
                 /\ pc' = "returned"
             ELSE
                 /\ frame' = [frame EXCEPT !.hasSet = hasSet, !.hasLoad = hasLoad,
                                           !.text = after, !.left = after,
                                           !.trace = <<[op |-> setter, ok |-> TRUE]>>]
                 /\ calls' = [calls EXCEPT !.setter = @ + 1]
                 /\ pc' = "restore"
                 /\ log' = log
    /\ UNCHANGED <<reports, pages, source_item, source_tool, source_settings,
                   method_used, track_count, i, items, target_items, scanned,
                   success_count, idx, tgt_tool, restored, fn, arg, ret>>

\* step 4: SetInput("StyledText", original_text)
Restore ==
    /\ pc = "restore"
    /\ \E raises \in BOOLEAN :
          IF raises THEN
              /\ frame' = [frame EXCEPT !.trace = Append(@, [op |-> "SetInput", ok |-> FALSE]),
                                        !.result = "False"]
              /\ log' = Append(log, Line("ErrorRestore", NoItem, 0, ""))
              /\ restored' = restored
          ELSE
              /\ frame' = [frame EXCEPT !.trace = Append(@, [op |-> "SetInput", ok |-> TRUE]),
                                        !.text = frame.original_text,
                                        !.result = "True"]
              /\ log' = log
              /\ restored' = restored + 1
    /\ calls' = [calls EXCEPT !.setInput = @ + 1]
    /\ pc' = "returned"
    /\ UNCHANGED <<reports, pages, source_item, source_tool, source_settings,
                   method_used, track_count, i, items, target_items, scanned,
                   success_count, idx, tgt_tool, fn, arg, ret>>

\* Count that ignores the returned value
CountAlways(result, count) == count + 1

\* success_count after apply_style_and_restore_text returned `result`
Count(result, count) == IF result = "True" THEN count + 1 ELSE count

\* main's use of the returned value, and the end of the iteration
LoopResult ==
    /\ pc = "returned"
    /\ success_count' = Count(frame.result, success_count)
    /\ log' = Append(log, Line(IF frame.result = "True" THEN "OK" ELSE "Fail",
                               target_items[idx].id, 0, ""))
    /\ idx' = idx + 1
    /\ tgt_tool' = NoTool
    /\ frame' = NoFrame
    /\ pc' = "loop"
    /\ UNCHANGED <<reports, pages, source_item, source_tool, source_settings,
                   method_used, track_count, i, items, target_items, scanned,
                   calls, restored, fn, arg, ret>>

\* after the loop: the rule, the tally and the report
Finish ==
    /\ pc = "loop"
    /\ idx > Len(target_items)
    /\ log' = log \o <<Line("Rule", NoItem, 0, ""), Line("Done", NoItem, success_count, "")>>
    /\ show_report_window(log')
    /\ pc' = "done"
    /\ UNCHANGED <<pages, source_item, source_tool, source_settings,
                   method_used, track_count, i, items, target_items, scanned,
                   success_count, idx, tgt_tool, frame, calls, restored, fn, arg, ret>>

Next ==
    \/ Connect
    \/ GetSource
    \/ LocateSource
    \/ GetSettings
    \/ ScanStart
    \/ ScanTrack
    \/ ScanItem
    \/ ScanEnd
    \/ CheckTargets
    \/ LoopHead
    \/ Backup
    \/ Patch
    \/ Apply
    \/ Restore
    \/ LoopResult
    \/ Finish

Spec == Init /\ [][Next]_vars

\* ------------------------------------------- get_tool_settings on its own
ToolsSample == <<[key |-> NameTemplate, val |-> NodeVal(1)]>>
ProbeResults ==
    {NoneValue, ScalarValue} \cup
    {Dict(a, b, IF b THEN ToolsSample ELSE <<>>, e) :
        a \in BOOLEAN, b \in BOOLEAN, e \in 0..(KeyThreshold + 1)}
ProbeOutcomes == {Missing, Raises} \cup {Returns(r) : r \in ProbeResults}

ProbeInit ==
    /\ RunInit
    /\ fn = "probe"
    /\ arg \in [CandidateSet -> ProbeOutcomes]
    /\ ret = NoArg

ProbeCall ==
    /\ fn = "probe"
    /\ ret' = get_tool_settings(arg)
    /\ fn' = "probed"
    /\ UNCHANGED <<arg, runVars>>

SpecProbe == ProbeInit /\ [][ProbeCall]_vars

\* ---------------------------------------------------- the patch on its own
PatchInputs ==
    {FlatSettings} \cup {Dict(FALSE, TRUE, t, 0) : t \in ToolsMaps}

PatchInit ==
    /\ RunInit
    /\ fn = "patch"
    /\ arg \in [settings : PatchInputs, src : NodeNames, tgt : NodeNames]
    /\ ret = NoArg

PatchCall ==
    /\ fn = "patch"
    /\ ret' = PatchSettings(arg.settings, arg.tgt)
    /\ fn' = "patched"
    /\ UNCHANGED <<arg, runVars>>

SpecPatch == PatchInit /\ [][PatchCall]_vars

\* ------------------------------------------------------------------ claims
LastTag == IF log = <<>> THEN "" ELSE log[Len(log)].tag
CountTag(tags) == Cardinality({k \in 1..Len(log) : log[k].tag \in tags})
Succeeded == pc = "returned" /\ frame.result = "True"

\* C1 as stated: whenever apply_style_and_restore_text returns success, the
\* text the node holds afterwards equals the text read from it before, also
\* when that read gave None.
C1_TextUnchanged == Succeeded => frame.text = frame.read

\* C1 amended: whenever apply_style_and_restore_text returns success, the
\* node's text afterwards equals the text read before if that was a string,
\* and is the empty string if the read gave None.
C1_TextRestored ==
    Succeeded =>
        /\ frame.read # PyNone => frame.text = frame.read
        /\ frame.read = PyNone => frame.text = PyStr("")

C1_Witness ==
    /\ Succeeded
    /\ frame.read = PyStr("Hello")
    /\ frame.left = PyStr("")
    /\ frame.text = PyStr("Hello")

\* C2 as stated: once the apply loop has started, a run only ends with every
\* destination visited and the tally line logged last, whatever host call
\* failed for a destination.
C2_BatchNeverAborts ==
    (pc \in {"done", "crashed"} /\ idx >= 1) =>
        /\ idx = Len(target_items) + 1
        /\ LastTag = "Done"

\* A finished scan that selected no target (the warning branch of main).
ScanFoundNothing ==
    /\ target_items = <<>>
    /\ pc = "scanned" \/ (pc = "done" /\ method_used # "None")

\* C3 as stated: when no item matches, the run has issued no page switch, no
\* setter, no SetInput and no destination composition access.
C3_NoHostMutation ==
    ScanFoundNothing =>
        /\ pages = <<>>
        /\ calls.setter = 0 /\ calls.setInput = 0 /\ calls.comp = 0

\* C3 amended: when no item matches, the run ends on the warning line with the
\* log reported, no setter, no SetInput and no composition access on a scanned
\* destination; the only page switches are the Fusion/Edit pair of the source
\* composition auto-load.
C3_NoDestinationTouched ==
    ScanFoundNothing =>
        /\ pages \in {<<>>, <<"Fusion", "Edit">>}
        /\ calls.setter = 0 /\ calls.setInput = 0 /\ calls.comp = 0
        /\ pc = "done" => LastTag = "WarningNoTargets" /\ reports = <<log>>

C3_Witness ==
    /\ ScanFoundNothing
    /\ pc = "done"
    /\ pages = <<"Fusion", "Edit">>

\* C4 as stated: a run that returns after logging anything (every early exit
\* but the missing host) has passed its log to show_report_window.
C4_ReportUnlessNoHost == (pc = "done" /\ log # <<>>) => reports = <<log>>

\* main has called get_tool_settings and logged what it got
ProbeRan == CountTag({"FatalNoSettings", "Success"}) > 0

\* C5: when get_tool_settings gave (None, None), main has ended with the
\* fatal line reported and has queried no track, selected no target and
\* called no setter, no SetInput and no destination composition.
C5_NoSettingsNoScan ==
    (ProbeRan /\ method_used = "None") =>
        /\ pc = "done"
        /\ LastTag = "FatalNoSettings"
        /\ calls = NoCalls
        /\ target_items = <<>>

C5_Witness == pc = "done" /\ LastTag = "FatalNoSettings" /\ reports = <<log>>

\* C6: the number in the "Done" line is the number of destinations whose
\* setter and SetInput both returned; it is the number of OK lines, and every
\* other destination has a Skip or Fail line.
C6_TallyIsRestored ==
    LastTag = "Done" =>
        /\ log[Len(log)].n = restored
        /\ CountTag({"OK"}) = restored
        /\ CountTag({"OK", "SkipNoComp", "SkipNoTool", "Fail", "FailException"})
              = Len(target_items)

C6_Witness ==
    /\ LastTag = "Done"
    /\ log[Len(log)].n = 1
    /\ CountTag({"SkipNoComp"}) = 1
    /\ Len(target_items) = 2

Lookup(d, k) == d[CHOOSE j \in 1..Len(d) : d[j].key = k].val
Patched == fn = "patched" /\ arg.settings.hasTools /\ arg.src \in Keys(arg.settings.tools)
Renamed ==
    /\ arg.src \notin Keys(ret.tools)
    /\ arg.tgt \in Keys(ret.tools)
    /\ Lookup(ret.tools, arg.tgt) = Lookup(arg.settings.tools, arg.src)
\* the source's entry is a mapping with "Inputs" and no earlier entry is
SourceEntryFirst ==
    \E j \in 1..Len(arg.settings.tools) :
        /\ arg.settings.tools[j].key = arg.src
        /\ arg.settings.tools[j].val.isDict /\ arg.settings.tools[j].val.hasInputs
        /\ \A m \in 1..(j - 1) :
              ~(arg.settings.tools[m].val.isDict /\ arg.settings.tools[m].val.hasInputs)

\* C7 as stated, for a source entry that is a mapping with "Inputs" and a
\* destination name other than the source's: wherever that entry stands in
\* "Tools", the patched "Tools" lacks the source key and has the destination
\* name bound to the same value.
C7_AlwaysRenamed ==
    (Patched /\ arg.src # arg.tgt /\ IsNodeShaped(Lookup(arg.settings.tools, arg.src)))
        => Renamed

\* C7 amended: if the source's entry is the first "Tools" entry that is a
\* mapping with "Inputs" and the destination name differs from the source
\* name, the patched "Tools" lacks the source key and binds the destination
\* name to the same value; if the names are equal the snapshot is unchanged.
C7_FirstEntryRenamed ==
    (Patched /\ SourceEntryFirst) =>
        /\ arg.src # arg.tgt => Renamed
        /\ arg.src = arg.tgt => ret = arg.settings

C7_Witness ==
    /\ Patched /\ SourceEntryFirst
    /\ arg.src # arg.tgt
    /\ arg.tgt \in Keys(arg.settings.tools)
    /\ Lookup(arg.settings.tools, arg.tgt) # Lookup(arg.settings.tools, arg.src)

\* C8: when the scan is over, target_items is the list of scanned items that
\* are Pink and are not the source item, in scan order, and never holds the
\* source item.
C8_TargetsArePinkOthers ==
    pc = "scanned" =>
        LET Wanted(item) == item.color = "Pink" /\ item.id # source_item
        IN /\ target_items = SelectSeq(scanned, Wanted)
           /\ \A j \in 1..Len(target_items) : target_items[j].id # source_item

C8_Witness ==
    /\ pc = "scanned"
    /\ Len(target_items) = 2
    /\ scanned[1].color = "Pink" /\ scanned[1].id = source_item
    /\ track_count = 2

\* C9: after the apply step, at most one setter was called: LoadSettings if
\* the snapshot came from SaveSettings and LoadSettings exists, else
\* SetSettings if it exists, else LoadSettings if it exists; a raising setter
\* or no setter at all ends the operation with failure and no SetInput.
C9_OneSetterInOrder ==
    pc \in {"restore", "returned"} =>
        LET preferred ==
                CASE method_used = "SaveSettings" /\ frame.hasLoad -> "LoadSettings"
                  [] ~(method_used = "SaveSettings" /\ frame.hasLoad) /\ frame.hasSet
                        -> "SetSettings"
                  [] ~(method_used = "SaveSettings") /\ ~frame.hasSet /\ frame.hasLoad
                        -> "LoadSettings"
                  [] OTHER -> "none"
            IsSetter(c) == c.op # "SetInput"
            setters == SelectSeq(frame.trace, IsSetter)
        IN /\ preferred = "none" =>
                 frame.trace = <<>> /\ pc = "returned" /\ frame.result = "False"
           /\ preferred # "none" =>
                 /\ Len(setters) = 1 /\ frame.trace[1] = setters[1]
                 /\ setters[1].op = preferred
                 /\ ~setters[1].ok =>
                       Len(frame.trace) = 1 /\ pc = "returned" /\ frame.result = "False"

C9_Witness ==
    /\ pc = "returned"
    /\ method_used = "SaveSettings"
    /\ frame.hasSet /\ frame.hasLoad
    /\ frame.trace = <<[op |-> "LoadSettings", ok |-> FALSE]>>

\* C10: get_tool_settings returns the result and the name of the first of
\* GetSettings, SaveSettings, GetCurrentSettings that exists, does not raise
\* and returns a non-empty mapping with "Inputs", or "Tools", or more than
\* five keys; it returns (None, None) if there is none.
C10_FirstQualifying ==
    fn = "probed" =>
        LET order == <<"GetSettings", "SaveSettings", "GetCurrentSettings">>
            Q(k) == /\ arg[order[k]].kind = "returns"
                    /\ arg[order[k]].result.kind = "dict"
                    /\ DictLen(arg[order[k]].result) >= 1
                    /\ \/ arg[order[k]].result.hasInputs
                       \/ arg[order[k]].result.hasTools
                       \/ DictLen(arg[order[k]].result) >= 6
        IN /\ (\A k \in 1..3 : ~Q(k)) =>
                 ret = [settings |-> NoneValue, method |-> "None"]
           /\ \A k \in 1..3 :
                 (Q(k) /\ \A m \in 1..(k - 1) : ~Q(m)) =>
                     ret = [settings |-> arg[order[k]].result, method |-> order[k]]

C10_Witness ==
    /\ fn = "probed"
    /\ arg["GetSettings"] = Raises
    /\ arg["SaveSettings"] = Returns(Dict(FALSE, FALSE, <<>>, 5))
    /\ ret.method = "GetCurrentSettings"
    /\ DictLen(ret.settings) = 6

====
